---- MODULE Spec2Model ----
(***************************************************************************)
(* extract_frames (src/extract_frames.py): decode a video frame by frame,  *)
(* save every timestamped frame as frame_{i:06d}.jpg and log               *)
(* filename,timestamp rows to frame_timestamps.csv, the timestamps shifted *)
(* by the offset read from the sidecar video_start_time.txt.               *)
(*                                                                         *)
(* Numbers.  A time value is an exact rational number of seconds held as   *)
(* [sec, frac]: sec whole seconds (floor) plus frac / FracDen seconds,     *)
(* 0 <= frac < FracDen.  FracDen is finer than the 6 decimals the CSV      *)
(* keeps, so formatting rounds and is not the identity.  The binary        *)
(* rounding error of a 64-bit float is not modelled.                       *)
(*                                                                         *)
(* Text.  A text is a sequence of one-character strings.  A filename is    *)
(* <<"frame_", digits, ".jpg">>, a timestamp field is                      *)
(* [neg, whole, frac] with frac the digits after the decimal point.        *)
(***************************************************************************)
EXTENDS Integers, Sequences, FiniteSets, TLC

\* ------------------------------------------------------------- bounds

\* Frames one video decodes to, at most.
MaxFrames == 2

\* Calls of extract_frames in one behaviour (into the same output folder).
MaxRuns == 2

\* ------------------------------------------------- program constants

\* f"frame_{i:06d}.jpg": the minimum width of the index.
IndexWidth == 6

\* f"{timestamp_seconds:.6f}": digits after the decimal point.
Precision == 6

\* if i % 50 == 0: the progress notice's period.
ProgressEvery == 50

\* ------------------------------------------------------------ numbers

RECURSIVE Pow10(_)
Pow10(n) == IF n = 0 THEN 1 ELSE 10 * Pow10(n - 1)

\* Resolution of a time value: 1/FracDen seconds (thirds of the 7th decimal).
FracDen == 3 * Pow10(7)

Zero == [sec |-> 0, frac |-> 0]

\* a + b on time values (timestamp_seconds = ... + start_offset).
Add(a, b) ==
    LET f == a.frac + b.frac
    IN  IF f >= FracDen
        THEN [sec |-> a.sec + b.sec + 1, frac |-> f - FracDen]
        ELSE [sec |-> a.sec + b.sec, frac |-> f]

\* a <= b on time values (the tests' float(first_row[1]) >= start_offset).
Leq(a, b) == a.sec < b.sec \/ (a.sec = b.sec /\ a.frac <= b.frac)

\* pts * time_base, time_base the fraction tb.num / tb.den of a second.
Ticks(pts, tb) ==
    LET u == pts * tb.num * (FracDen \div tb.den)
    IN  [sec |-> u \div FracDen, frac |-> u % FracDen]

\* ---------------------------------------------------------- formatting

\* The decimal digits of n >= 0, most significant first, no padding.
RECURSIVE DecDigits(_)
DecDigits(n) == IF n < 10 THEN <<n>> ELSE Append(DecDigits(n \div 10), n % 10)

\* format(n, "0{w}d"): the digits of n, zero-padded on the left to width w.
RECURSIVE ZeroPad(_, _)
ZeroPad(ds, w) == IF Len(ds) >= w THEN ds ELSE ZeroPad(<<0>> \o ds, w)

\* The number the first n digits of a digit sequence spell.
RECURSIVE DigitsUpTo(_, _)
DigitsUpTo(ds, n) == IF n = 0 THEN 0 ELSE 10 * DigitsUpTo(ds, n - 1) + ds[n]

\* The number a digit sequence spells.
DigitsValue(ds) == DigitsUpTo(ds, Len(ds))

\* Mutant of FileName: the index counted from 1.
FileNameOneBased(idx) == <<"frame_", ZeroPad(DecDigits(idx + 1), IndexWidth), ".jpg">>

\* f"frame_{i:06d}.jpg"
FileName(idx) == <<"frame_", ZeroPad(DecDigits(idx), IndexWidth), ".jpg">>

\* The last digit kept by f"{v:.6f}" counts units of 1/Scale second, each
\* RoundStep units of a time value.
Scale == Pow10(Precision)
RoundStep == FracDen \div Scale

\* f"{v:.6f}": sign, whole part, and Precision digits after the point, the
\* magnitude rounded half-to-even at the last digit kept.
FormatFixed(v) ==
    LET neg   == v.sec < 0
        mag   == IF ~neg THEN v
                 ELSE IF v.frac = 0 THEN [sec |-> -v.sec, frac |-> 0]
                 ELSE [sec |-> -v.sec - 1, frac |-> FracDen - v.frac]
        m     == mag.frac \div RoundStep
        r     == mag.frac % RoundStep
        up    == 2 * r > RoundStep \/ (2 * r = RoundStep /\ m % 2 = 1)
        q     == IF up THEN m + 1 ELSE m
    IN  [neg   |-> neg,
         whole |-> IF q = Scale THEN mag.sec + 1 ELSE mag.sec,
         frac  |-> ZeroPad(DecDigits(q % Scale), Precision)]

\* float(field), as the tests read a row back: the time value a formatted
\* timestamp spells.
FieldValue(fld) ==
    LET scale == Pow10(Len(fld.frac))
        f     == DigitsValue(fld.frac) * (FracDen \div scale)
    IN  IF ~fld.neg \/ (fld.whole = 0 /\ f = 0) THEN [sec |-> fld.whole, frac |-> f]
        ELSE IF f = 0 THEN [sec |-> -fld.whole, frac |-> 0]
        ELSE [sec |-> -fld.whole - 1, frac |-> FracDen - f]

\* ------------------------------------------------------------- parsing

Whitespace == {" ", "\n", "\t", "\r"}
DigitChars == <<"0", "1", "2", "3", "4", "5", "6", "7", "8", "9">>
IsDigit(c) == \E d \in 1..10 : DigitChars[d] = c
DigitOf(c) == (CHOOSE d \in 1..10 : DigitChars[d] = c) - 1

\* str.strip(): leading and trailing whitespace removed.
RECURSIVE Strip(_)
Strip(s) ==
    IF s = <<>> THEN s
    ELSE IF s[1] \in Whitespace THEN Strip(Tail(s))
    ELSE IF s[Len(s)] \in Whitespace THEN Strip(SubSeq(s, 1, Len(s) - 1))
    ELSE s

AllDigits(s) == \A k \in 1..Len(s) : IsDigit(s[k])

RECURSIVE WholeOf(_)
WholeOf(s) ==
    IF s = <<>> THEN 0
    ELSE 10 * WholeOf(SubSeq(s, 1, Len(s) - 1)) + DigitOf(s[Len(s)])

\* The fraction .d1d2...dk in units of 1/FracDen second.
RECURSIVE FracOf(_, _)
FracOf(s, k) ==
    IF k > Len(s) THEN 0
    ELSE DigitOf(s[k]) * (FracDen \div Pow10(k)) + FracOf(s, k + 1)

\* Mutant of ParseFloat: int(s), which takes no decimal point.
ParseWholeNumber(s) ==
    LET text == Strip(s)
        neg  == text # <<>> /\ text[1] = "-"
        body == IF neg THEN Tail(text) ELSE text
    IN  IF body = <<>> \/ ~AllDigits(body) THEN [ok |-> FALSE, value |-> Zero]
        ELSE [ok |-> TRUE, value |-> [sec |-> IF neg THEN -WholeOf(body) ELSE WholeOf(body),
                                      frac |-> 0]]

\* float(s) for a plain decimal literal [-]digits[.digits], whitespace around
\* it ignored: [ok |-> TRUE, value |-> v], or ok FALSE where float raises
\* ValueError.
ParseFloat(s) ==
    LET text == Strip(s)
        neg  == text # <<>> /\ text[1] = "-"
        body == IF neg THEN Tail(text) ELSE text
        dots == {k \in 1..Len(body) : body[k] = "."}
        dot  == IF dots = {} THEN Len(body) + 1 ELSE CHOOSE k \in dots : TRUE
        ip   == SubSeq(body, 1, dot - 1)
        fp   == SubSeq(body, dot + 1, Len(body))
        good == /\ Cardinality(dots) <= 1
                /\ AllDigits(ip) /\ AllDigits(fp)
                /\ Len(ip) + Len(fp) > 0
        w    == WholeOf(ip)
        f    == FracOf(fp, 1)
    IN  IF ~good THEN [ok |-> FALSE, value |-> Zero]
        ELSE IF ~neg \/ (w = 0 /\ f = 0) THEN [ok |-> TRUE, value |-> [sec |-> w, frac |-> f]]
        ELSE IF f = 0 THEN [ok |-> TRUE, value |-> [sec |-> -w, frac |-> 0]]
        ELSE [ok |-> TRUE, value |-> [sec |-> -w - 1, frac |-> FracDen - f]]

\* -------------------------------------------------------------- inputs

\* What the sidecar video_start_time.txt may hold: no file, the test's
\* "1000.0", a whitespace-padded number finer than the CSV's 6 decimals,
\* and text that is no number.
Sidecars ==
    { [exists |-> FALSE, content |-> <<>>],
      [exists |-> TRUE,  content |-> <<"1", "0", "0", "0", ".", "0">>],
      [exists |-> TRUE,  content |-> <<" ", "0", ".", "0", "0", "0", "0", "0", "0", "4", "\n">>],
      [exists |-> TRUE,  content |-> <<"a", "b", "c", "\n">>] }

\* stream.time_base: seconds per tick, a fraction.  Neither has a finite
\* decimal expansion: one tick rounds down and two ticks round up at the
\* sixth digit.
TimeBases == { [num |-> 1, den |-> 3], [num |-> 1, den |-> 30] }

\* frame.pts: None, held as <<>>, or an integer tick count p, held as <<p>>
\* (negative ticks occur in streams whose first frames precede the stream's
\* origin).
None == <<>>
PtsValues == {None, <<-1>>, <<0>>, <<2>>}

\* --------------------------------------------------------------- state

VARIABLES
    pc,                \* where the call of extract_frames stands
    runs,              \* calls of extract_frames started so far
    sidecar,           \* video_start_time.txt beside the video
    time_base,         \* stream.time_base of the video's first video stream
    video,             \* the frames (their pts) the file at video_path is known to
                       \* hold: those a call has decoded from it so far
    videoKnown,        \* a call has decoded the file to its end: video is all of it
    dirExists,         \* output_folder exists
    folder,            \* image files of output_folder: filename -> "image" or "truncated"
    csvExists,         \* frame_timestamps.csv exists in output_folder
    csv,               \* its lines
    csvOpen,           \* csv_file is open (inside the with block)
    start_offset,      \* local start_offset
    count,             \* enumerate's next index
    i,                 \* loop variable i
    frame,             \* loop variable frame: its pts
    timestamp_seconds, \* local timestamp_seconds
    filename,          \* local filename
    console,           \* what this call has printed
    decoded,           \* history: the pts of the frames decoded by this call
    written,           \* history: the filenames this call has saved, in order
    sidecarRead,       \* history: this call has read the sidecar
    csvOpened,         \* history: this call has opened frame_timestamps.csv for writing
    ioError,           \* history: this call was aborted by an I/O error
    startFolder,       \* history: folder when this call started
    prevCsv            \* history: [valid, lines]: the CSV the call before wrote, valid
                       \* if that call completed and the video is the same file since

vars == <<pc, runs, sidecar, time_base, video, videoKnown, dirExists, folder, csvExists, csv, csvOpen,
          start_offset, count, i, frame, timestamp_seconds, filename, console,
          decoded, written, sidecarRead, csvOpened, ioError, startFolder, prevCsv>>

env    == <<sidecar, time_base>>
file   == <<video, videoKnown>>
disk   == <<dirExists, folder, csvExists, csv>>
locals == <<start_offset, count, i, frame, timestamp_seconds, filename>>
hist   == <<decoded, written, sidecarRead, csvOpened, ioError, startFolder, prevCsv>>

Header == [kind |-> "header", cells |-> <<"filename", "timestamp">>]
DataRow(name, ts) == [kind |-> "data", cells |-> <<name, FormatFixed(ts)>>]

EmptyFolder == [n \in {} |-> 0]
NoName == <<"", <<>>, "">>

Terminal == {"idle", "returned", "done", "aborted"}

Init ==
    /\ pc = "idle"
    /\ runs = 0
    /\ sidecar \in Sidecars
    /\ time_base \in TimeBases
    /\ video = <<>>
    /\ videoKnown = FALSE
    /\ dirExists \in BOOLEAN
    /\ folder = EmptyFolder
    /\ csvExists = FALSE
    /\ csv = <<>>
    /\ csvOpen = FALSE
    /\ start_offset = Zero
    /\ count = 0
    /\ i = 0
    /\ frame = None
    /\ timestamp_seconds = Zero
    /\ filename = NoName
    /\ console = <<>>
    /\ decoded = <<>>
    /\ written = <<>>
    /\ sidecarRead = FALSE
    /\ csvOpened = FALSE
    /\ ioError = FALSE
    /\ startFolder = EmptyFolder
    /\ prevCsv = [valid |-> FALSE, lines |-> <<>>]

\* ------------------------------------------------------------- actions

Say(msg) == console' = Append(console, msg)

\* A call extract_frames(video_path, output_folder) begins (line 7), on the
\* video file the call before read or on another in its place; the history
\* of the call before is set aside.
StartRun ==
    /\ pc \in Terminal
    /\ runs < MaxRuns
    /\ runs' = runs + 1
    /\ pc' = "mkdir"
    /\ start_offset' = Zero
    /\ count' = 0
    /\ i' = 0
    /\ frame' = None
    /\ timestamp_seconds' = Zero
    /\ filename' = NoName
    /\ console' = <<>>
    /\ decoded' = <<>>
    /\ written' = <<>>
    /\ sidecarRead' = FALSE
    /\ csvOpened' = FALSE
    /\ ioError' = FALSE
    /\ startFolder' = folder
    /\ \E replaced \in BOOLEAN :
          IF replaced
          THEN /\ video' = <<>>
               /\ videoKnown' = FALSE
               /\ prevCsv' = [valid |-> FALSE, lines |-> <<>>]
          ELSE /\ UNCHANGED file
               /\ prevCsv' = IF pc = "done"
                              THEN [valid |-> TRUE, lines |-> csv]
                              ELSE [valid |-> FALSE, lines |-> <<>>]
    /\ UNCHANGED <<env, disk, csvOpen>>

\* Lines 26-27: create the output directory if it is missing.
MakeDir ==
    /\ pc = "mkdir"
    /\ dirExists' = TRUE
    /\ pc' = "open"
    /\ UNCHANGED <<runs, env, file, folder, csvExists, csv, csvOpen, locals, console, hist>>

\* Mutant of OpenVideo: the CSV is created before the video is known to open.
OpenVideoAfterCsv ==
    /\ pc = "open"
    /\ csvExists' = TRUE
    /\ csv' = <<>>
    /\ \E opened \in BOOLEAN :
          IF opened
          THEN /\ pc' = "check_stream"
               /\ UNCHANGED console
          ELSE /\ Say(<<"Error opening video file">>)
               /\ pc' = "returned"
    /\ UNCHANGED <<runs, env, file, dirExists, folder, csvOpen, locals, hist>>

\* Lines 30-34: av.open(video_path); on any exception print and return.
OpenVideo ==
    /\ pc = "open"
    /\ \E opened \in BOOLEAN :
          IF opened
          THEN /\ pc' = "check_stream"
               /\ UNCHANGED console
          ELSE /\ Say(<<"Error opening video file">>)
               /\ pc' = "returned"
    /\ UNCHANGED <<runs, env, file, disk, csvOpen, locals, hist>>

\* Mutant of CheckStream: the return after the message is missing.
CheckStreamNoReturn ==
    /\ pc = "check_stream"
    /\ \E hasVideo \in BOOLEAN :
          IF hasVideo
          THEN UNCHANGED console
          ELSE Say(<<"No video stream found in file.">>)
    /\ pc' = "load_offset"
    /\ UNCHANGED <<runs, env, file, disk, csvOpen, locals, hist>>

\* Lines 36-40: no video stream: print and return; else take stream 0.
CheckStream ==
    /\ pc = "check_stream"
    /\ \E hasVideo \in BOOLEAN :
          IF hasVideo
          THEN /\ pc' = "load_offset"
               /\ UNCHANGED console
          ELSE /\ Say(<<"No video stream found in file.">>)
               /\ pc' = "returned"
    /\ UNCHANGED <<runs, env, file, disk, csvOpen, locals, hist>>

\* Lines 43-61: the start offset from the sidecar, 0.0 when the sidecar is
\* missing or float() raises ValueError; then the "Processing" notice.
LoadOffset ==
    /\ pc = "load_offset"
    /\ IF sidecar.exists
       THEN LET parsed == ParseFloat(Strip(sidecar.content))
            IN  /\ sidecarRead' = TRUE
                /\ IF parsed.ok
                   THEN /\ start_offset' = parsed.value
                        /\ console' = console \o <<<<"Found start time offset">>, <<"Processing">>>>
                   ELSE /\ start_offset' = Zero
                        /\ console' = console \o <<<<"Warning: Could not parse video_start_time.txt">>,
                                                   <<"Processing">>>>
       ELSE /\ sidecarRead' = FALSE
            /\ start_offset' = Zero
            /\ console' = console \o <<<<"Warning: video_start_time.txt not found">>, <<"Processing">>>>
    /\ pc' = "open_csv"
    /\ UNCHANGED <<runs, env, file, disk, csvOpen, count, i, frame, timestamp_seconds, filename,
                   decoded, written, csvOpened, ioError, startFolder, prevCsv>>

\* Mutant of OpenCsv: mode='a', the file is created or appended to.
OpenCsvAppend ==
    /\ pc = "open_csv"
    /\ csvExists' = TRUE
    /\ csv' = csv
    /\ csvOpen' = TRUE
    /\ csvOpened' = TRUE
    /\ pc' = "write_header"
    /\ UNCHANGED <<runs, env, file, dirExists, folder, locals, console,
                   decoded, written, sidecarRead, ioError, startFolder, prevCsv>>

\* Line 63: open(csv_path, mode='w'): the file is created or truncated.
OpenCsv ==
    /\ pc = "open_csv"
    /\ csvExists' = TRUE
    /\ csv' = <<>>
    /\ csvOpen' = TRUE
    /\ csvOpened' = TRUE
    /\ pc' = "write_header"
    /\ UNCHANGED <<runs, env, file, dirExists, folder, locals, console,
                   decoded, written, sidecarRead, ioError, startFolder, prevCsv>>

\* Lines 64-65: writer.writerow(["filename", "timestamp"]).
WriteHeader ==
    /\ pc = "write_header"
    /\ csv' = Append(csv, Header)
    /\ pc' = "next_frame"
    /\ UNCHANGED <<runs, env, file, dirExists, folder, csvExists, csvOpen, locals, console, hist>>

\* Line 67: enumerate(container.decode(stream)) yields the next frame and
\* its index, or is exhausted.  The frames are those of the file: the ones
\* an earlier call found in it, then, where no call has read further, any.
NextFrame ==
    /\ pc = "next_frame"
    /\ \/ /\ count < Len(video)
          /\ frame' = video[count + 1]
          /\ decoded' = Append(decoded, video[count + 1])
          /\ i' = count
          /\ count' = count + 1
          /\ pc' = "check_pts"
          /\ UNCHANGED file
       \/ /\ count = Len(video) /\ ~videoKnown /\ Len(video) < MaxFrames
          /\ \E p \in PtsValues :
                /\ frame' = p
                /\ decoded' = Append(decoded, p)
                /\ video' = Append(video, p)
          /\ i' = count
          /\ count' = count + 1
          /\ pc' = "check_pts"
          /\ UNCHANGED videoKnown
       \/ /\ count = Len(video)
          /\ videoKnown' = TRUE
          /\ pc' = "close"
          /\ UNCHANGED <<video, frame, decoded, i, count>>
    /\ UNCHANGED <<runs, env, disk, csvOpen, start_offset, timestamp_seconds, filename,
                   console, written, sidecarRead, csvOpened, ioError, startFolder, prevCsv>>

\* Mutant of CheckPts: a frame without pts gets no image but is still logged.
CheckPtsLogsSkipped ==
    /\ pc = "check_pts"
    /\ IF frame = None
       THEN /\ timestamp_seconds' = start_offset
            /\ filename' = FileName(i)
            /\ pc' = "write_row"
       ELSE /\ timestamp_seconds' = Add(Ticks(frame[1], time_base), start_offset)
            /\ filename' = FileName(i)
            /\ pc' = "save_image"
    /\ UNCHANGED <<runs, env, file, disk, csvOpen, start_offset, count, i, frame, console, hist>>

\* Mutant of CheckPts: the start offset is left out of the timestamp.
CheckPtsNoOffset ==
    /\ pc = "check_pts"
    /\ IF frame = None
       THEN /\ pc' = "next_frame"
            /\ UNCHANGED <<timestamp_seconds, filename>>
       ELSE /\ timestamp_seconds' = Ticks(frame[1], time_base)
            /\ filename' = FileName(i)
            /\ pc' = "save_image"
    /\ UNCHANGED <<runs, env, file, disk, csvOpen, start_offset, count, i, frame, console, hist>>

\* Mutant of CheckPts: the offset is subtracted instead of added.
CheckPtsOffsetSubtracted ==
    /\ pc = "check_pts"
    /\ IF frame = None
       THEN /\ pc' = "next_frame"
            /\ UNCHANGED <<timestamp_seconds, filename>>
       ELSE /\ timestamp_seconds' =
                   Add(Ticks(frame[1], time_base),
                       IF start_offset.frac = 0
                       THEN [sec |-> -start_offset.sec, frac |-> 0]
                       ELSE [sec |-> -start_offset.sec - 1, frac |-> FracDen - start_offset.frac])
            /\ filename' = FileName(i)
            /\ pc' = "save_image"
    /\ UNCHANGED <<runs, env, file, disk, csvOpen, start_offset, count, i, frame, console, hist>>

\* Mutant of CheckPts: a skipped frame does not use up its index.
CheckPtsSkipKeepsIndex ==
    /\ pc = "check_pts"
    /\ IF frame = None
       THEN /\ pc' = "next_frame"
            /\ count' = count - 1
            /\ UNCHANGED <<timestamp_seconds, filename>>
       ELSE /\ timestamp_seconds' = Add(Ticks(frame[1], time_base), start_offset)
            /\ filename' = FileName(i)
            /\ pc' = "save_image"
            /\ UNCHANGED count
    /\ UNCHANGED <<runs, env, file, disk, csvOpen, start_offset, i, frame, console, hist>>

\* Lines 71-79: a frame without pts is skipped; else its timestamp and
\* filename are computed.
CheckPts ==
    /\ pc = "check_pts"
    /\ IF frame = None
       THEN /\ pc' = "next_frame"
            /\ UNCHANGED <<timestamp_seconds, filename>>
       ELSE /\ timestamp_seconds' = Add(Ticks(frame[1], time_base), start_offset)
            /\ filename' = FileName(i)
            /\ pc' = "save_image"
    /\ UNCHANGED <<runs, env, file, disk, csvOpen, start_offset, count, i, frame, console, hist>>

\* Line 82: frame.to_image().save(file_path).
SaveImage ==
    /\ pc = "save_image"
    /\ folder' = (filename :> "image") @@ folder
    /\ written' = Append(written, filename)
    /\ pc' = "write_row"
    /\ UNCHANGED <<runs, env, file, dirExists, csvExists, csv, csvOpen, locals, console,
                   decoded, sidecarRead, csvOpened, ioError, startFolder, prevCsv>>

\* Mutant of WriteRow: the rows are kept back instead of written as they come.
WriteRowDeferred ==
    /\ pc = "write_row"
    /\ IF i % ProgressEvery = 0
       THEN Say(<<"Saved", filename, FormatFixed(timestamp_seconds)>>)
       ELSE UNCHANGED console
    /\ pc' = "next_frame"
    /\ UNCHANGED <<runs, env, file, disk, csvOpen, locals, hist>>

\* Lines 85-88: the CSV row, and the progress notice every 50th index.
WriteRow ==
    /\ pc = "write_row"
    /\ csv' = Append(csv, DataRow(filename, timestamp_seconds))
    /\ IF i % ProgressEvery = 0
       THEN Say(<<"Saved", filename, FormatFixed(timestamp_seconds)>>)
       ELSE UNCHANGED console
    /\ pc' = "next_frame"
    /\ UNCHANGED <<runs, env, file, dirExists, folder, csvExists, csvOpen, locals, hist>>

\* The end of the with block (line 63): csv_file is closed.
CloseCsv ==
    /\ pc = "close"
    /\ csvOpen' = FALSE
    /\ pc' = "notify"
    /\ UNCHANGED <<runs, env, file, disk, locals, console, hist>>

\* Line 90: the completion notice; the call returns.
Finish ==
    /\ pc = "notify"
    /\ Say(<<"Done! Frames and CSV saved">>)
    /\ pc' = "done"
    /\ UNCHANGED <<runs, env, file, disk, csvOpen, locals, hist>>

\* An I/O error (disk full, permission denied, a decode failure) raised by
\* open at line 63, a writerow at line 65 or 85, the decoder at line 67 or
\* the image save at line 82: nothing catches it, the with block closes
\* csv_file on the way out, and the call ends with the exception.  A failed
\* save may leave a truncated image behind.
RaiseIOError ==
    /\ pc \in {"open_csv", "write_header", "next_frame", "save_image", "write_row"}
    /\ ioError' = TRUE
    /\ csvOpen' = FALSE
    /\ pc' = "aborted"
    /\ \/ UNCHANGED folder
       \/ /\ pc = "save_image"
          /\ folder' = (filename :> "truncated") @@ folder
    /\ UNCHANGED <<runs, env, file, dirExists, csvExists, csv, locals, console,
                   decoded, written, sidecarRead, csvOpened, startFolder, prevCsv>>

Step ==
    \/ MakeDir
    \/ OpenVideo
    \/ CheckStream
    \/ LoadOffset
    \/ OpenCsv
    \/ WriteHeader
    \/ NextFrame
    \/ CheckPts
    \/ SaveImage
    \/ WriteRow
    \/ CloseCsv
    \/ Finish

Next == StartRun \/ Step \/ RaiseIOError

Spec == Init /\ [][Next]_vars

\* The call's own steps are taken while any is enabled: the routine is
\* synchronous and nothing suspends it.  (Starting another call, and an I/O
\* error, are the environment's.)
FairSpec == Spec /\ WF_vars(Step)

\* =============================================================== claims

Range(seq) == {seq[k] : k \in 1..Len(seq)}

\* The index a frame filename spells.
FileIndex(name) == DigitsValue(name[2])

\* frame_00000k.jpg spelled out, for an index k below 10.
PaddedName(k) == <<"frame_", <<0, 0, 0, 0, 0, k>>, ".jpg">>

\* The offset each sidecar of Sidecars stands for, spelled out.
Thousand == [sec |-> 1000, frac |-> 0]
FourTenthsMicro == [sec |-> 0, frac |-> 12]
SidecarIs1000 == sidecar.exists /\ sidecar.content = <<"1", "0", "0", "0", ".", "0">>
SidecarIsFine == sidecar.exists /\ Len(sidecar.content) = 11
SidecarIsText == sidecar.exists /\ Len(sidecar.content) = 4
ExpectedOffset ==
    IF SidecarIs1000 THEN Thousand
    ELSE IF SidecarIsFine THEN FourTenthsMicro
    ELSE Zero

\* Two CSV contents are the same text, line by line.
SameLine(a, b) == a.kind = b.kind /\ (a.kind = "data" => a.cells = b.cells)
SameLines(x, y) == Len(x) = Len(y) /\ \A k \in 1..Len(x) : SameLine(x[k], y[k])

IsHeaderLine(l) == l.kind = "header" /\ l.cells = <<"filename", "timestamp">>

\* The data rows of the CSV (the lines after the first): how many, and the
\* k-th row's line, filename and timestamp field.
NumRows == IF csv = <<>> THEN 0 ELSE Len(csv) - 1
Row(k) == csv[k + 1]
RowName(k) == csv[k + 1].cells[1]
RowField(k) == csv[k + 1].cells[2]
RowNameSet == {RowName(k) : k \in 1..NumRows}

AllTimestamped == \A j \in 1..Len(decoded) : decoded[j] # None
StartedEmpty == startFolder = EmptyFolder

\* C1: a completed run over N frames that all carry a pts, into an output
\* folder that held no image (an empty folder; an earlier CSV alone changes
\* nothing), leaves exactly the images frame_000000.jpg ..
\* frame_{N-1:06d}.jpg and a CSV of N+1 lines, the header and N data rows.
C1_ExactOutput ==
    (pc = "done" /\ StartedEmpty /\ AllTimestamped) =>
        LET N == Len(decoded)
        IN  /\ DOMAIN folder = {PaddedName(k) : k \in 0..(N - 1)}
            /\ \A n \in DOMAIN folder : folder[n] = "image"
            /\ csvExists
            /\ Len(csv) = N + 1
            /\ IsHeaderLine(csv[1])
            /\ \A k \in 2..(N + 1) : csv[k].kind = "data"

C1_Witness ==
    /\ pc = "done" /\ StartedEmpty /\ AllTimestamped
    /\ Len(decoded) = MaxFrames
    /\ Len(csv) = MaxFrames + 1

\* C2: after a completed run, for any mix of frames with and without pts,
\* there are as many data rows as images written by the run, the k-th row
\* names the k-th image written, and the filename indices strictly increase
\* down the CSV.
C2_RowsMatchImages ==
    pc = "done" =>
        /\ NumRows = Len(written)
        /\ \A k \in 1..NumRows :
              /\ Row(k).kind = "data"
              /\ k <= Len(written) /\ RowName(k) = written[k]
        /\ \A k \in 1..(NumRows - 1) :
              FileIndex(RowName(k)) < FileIndex(RowName(k + 1))

C2_Witness ==
    /\ pc = "done"
    /\ Len(written) >= 1
    /\ Len(written) < Len(decoded)
    /\ decoded[1] = None

\* The CSV on disk is this call's own: the call has opened it for writing.
OwnCsv == csvOpened

SixDigits(fld) == Len(fld.frac) = 6 /\ \A d \in 1..Len(fld.frac) : fld.frac[d] \in 0..9

\* C3: the timestamp field of every data row the call has written is
\* pts * time_base + start_offset of the frame the row's filename names,
\* rendered with exactly 6 digits after the decimal point, start_offset being
\* the one value the sidecar gives, the same for every row.
C3_RowTimestamp ==
    OwnCsv =>
        \A k \in 1..NumRows :
            LET idx == FileIndex(RowName(k))
                fld == RowField(k)
            IN  /\ idx < Len(decoded)
                /\ decoded[idx + 1] # None
                /\ fld = FormatFixed(Add(Ticks(decoded[idx + 1][1], time_base), ExpectedOffset))
                /\ SixDigits(fld)

\* a row 1000.066667: offset 1000.0, two ticks of 1/30 s, rounded up at the
\* sixth digit, in a CSV that holds a second row.
C3_Witness ==
    /\ OwnCsv
    /\ NumRows = 2
    /\ \E k \in 1..NumRows :
          RowField(k) = [neg |-> FALSE, whole |-> 1000, frac |-> <<0, 6, 6, 6, 6, 7>>]

\* The two sidecar cases C4 names: the file holds 1000.0, or is absent.
NamedOffsetCase == SidecarIs1000 \/ ~sidecar.exists

\* C4 as stated: with the sidecar holding 1000.0, or absent, every timestamp
\* the call has emitted is at least the offset (1000.0, or 0).
C4_Original ==
    (OwnCsv /\ NamedOffsetCase) =>
        \A k \in 1..NumRows : Leq(ExpectedOffset, FieldValue(RowField(k)))

\* C4 amended: with the sidecar holding 1000.0, or absent, the timestamp
\* emitted for every frame whose pts is not negative is at least the offset
\* (1000.0, or 0).  (A frame whose pts is negative may get one below it.)
C4_NonNegativePts ==
    (OwnCsv /\ NamedOffsetCase) =>
        \A k \in 1..NumRows :
            LET idx == FileIndex(RowName(k))
                val == FieldValue(RowField(k))
            IN  /\ idx < Len(decoded) /\ decoded[idx + 1] # None
                /\ decoded[idx + 1][1] >= 0 => Leq(ExpectedOffset, val)

C4_Witness ==
    /\ OwnCsv /\ SidecarIs1000
    /\ NumRows = 2
    /\ decoded[FileIndex(RowName(1)) + 1] = <<-1>>
    /\ decoded[FileIndex(RowName(2)) + 1] = <<2>>

C5_Returned ==
    /\ pc = "returned" =>
          /\ ~ioError
          /\ dirExists
          /\ written = <<>> /\ ~csvOpened /\ ~csvOpen
          /\ folder = startFolder
          /\ ~sidecarRead
          /\ Len(console) = 1
          /\ console[1] \in {<<"Error opening video file">>, <<"No video stream found in file.">>}
    /\ pc = "aborted" => Len(console) >= 2 /\ console[2] = <<"Processing">>

C5_Untouched ==
    pc \in {"mkdir", "open", "check_stream"} =>
        /\ UNCHANGED <<folder, csvExists, csv, sidecarRead>>
        /\ pc' \in {"open", "check_stream", "load_offset", "returned"}

\* C5: when the container does not open, or has no video stream, the call
\* returns normally after reporting the one failure: the output directory
\* exists, the sidecar was not read, and no step of the call up to the return
\* has touched an image or the CSV, so what the folder held (an earlier
\* run's CSV included) is unchanged.  No call ends with an exception before
\* it reaches the CSV.
C5_EarlyReturn ==
    /\ []C5_Returned
    /\ [][C5_Untouched]_vars

\* a failed call into a folder that holds an earlier run's images and CSV.
C5_Witness ==
    /\ pc = "returned"
    /\ csvExists /\ Len(csv) >= 2
    /\ startFolder # EmptyFolder
    /\ console = <<<<"No video stream found in file.">>>>

\* The call has passed the loading of the offset (lines 43-56).
OffsetLoaded == pc \notin {"idle", "mkdir", "open", "check_stream", "load_offset", "returned"}

\* The positions (from 1) of the decoded frames that carry a pts, in order.
RECURSIVE Timestamped(_, _)
Timestamped(seq, j) ==
    IF j > Len(seq) THEN <<>>
    ELSE IF seq[j] # None THEN <<j>> \o Timestamped(seq, j + 1)
    ELSE Timestamped(seq, j + 1)

C6_Offset ==
    /\ OffsetLoaded =>
          /\ start_offset = ExpectedOffset
          /\ sidecarRead = sidecar.exists
          /\ Len(console) >= 2
          /\ console[1] = IF SidecarIsText THEN <<"Warning: Could not parse video_start_time.txt">>
                          ELSE IF sidecar.exists THEN <<"Found start time offset">>
                          ELSE <<"Warning: video_start_time.txt not found">>
    /\ (pc = "done" /\ (SidecarIsText \/ ~sidecar.exists)) =>
          LET kept == Timestamped(decoded, 1)
          IN  /\ Len(written) = Len(kept) /\ NumRows = Len(kept)
              /\ \A k \in 1..NumRows :
                    /\ k <= Len(kept)
                    /\ written[k] = PaddedName(kept[k] - 1)
                    /\ RowName(k) = PaddedName(kept[k] - 1)
                    /\ RowField(k) = FormatFixed(Ticks(decoded[kept[k]][1], time_base))

C7_Replaced ==
    (pc = "done" /\ runs >= 2) =>
        /\ Len(csv) = 1 + Len(written)
        /\ IsHeaderLine(csv[1])
        /\ \A k \in 1..NumRows : k <= Len(written) /\ RowName(k) = written[k]
        /\ prevCsv.valid => SameLines(csv, prevCsv.lines)
        /\ \A n \in DOMAIN startFolder :
              n \notin Range(written) => (n \in DOMAIN folder /\ folder[n] = startFolder[n])

C7_NoCleanup ==
    \A n \in DOMAIN folder :
        /\ n \in DOMAIN folder'
        /\ folder'[n] # folder[n] => (pc = "save_image" /\ n = filename)

\* C7: a completed run into a folder that a run was made into before
\* replaces the CSV entirely: its lines are the header and one row per image
\* this run wrote, none of the earlier run's; when the run before completed
\* on the same video, the CSV is line for line that run's CSV; no step ever
\* removes an image, and every image the folder held that this run did not
\* rewrite is still there, unchanged (so the images may be more than the CSV
\* lists).
C7_Rerun ==
    /\ []C7_Replaced
    /\ [][C7_NoCleanup]_vars

\* after a re-run on a shorter video the folder holds an earlier image,
\* beyond this run's frames, that the CSV does not list.
C7_Witness ==
    /\ pc = "done" /\ runs >= 2
    /\ RowNameSet # {}
    /\ \E n \in DOMAIN startFolder :
          /\ FileIndex(n) >= Len(decoded)
          /\ n \in DOMAIN folder /\ folder[n] = "image"
          /\ n \notin RowNameSet

\* a re-run on the same video after a completed run that wrote two rows.
C7_SameVideo ==
    /\ pc = "done" /\ prevCsv.valid
    /\ Len(prevCsv.lines) = 3

C8_Indexing ==
    LET kept == Timestamped(decoded, 1)
    IN  /\ Len(written) <= Len(kept)
        /\ \A k \in 1..Len(written) : written[k] = PaddedName(kept[k] - 1)
        /\ \A j \in 1..Len(decoded) :
              decoded[j] = None =>
                  /\ PaddedName(j - 1) \notin Range(written)
                  /\ OwnCsv => PaddedName(j - 1) \notin RowNameSet
                  /\ PaddedName(j - 1) \in DOMAIN folder => PaddedName(j - 1) \in DOMAIN startFolder

C8_SkipStep ==
    (pc = "check_pts" /\ frame = None) =>
        /\ UNCHANGED <<disk, console, written>>
        /\ pc' = "next_frame"
        /\ count' = i + 1

\* C8: a decoded frame without pts changes no output (no image, no CSV row,
\* no notice) and the loop goes on to the next frame, the index after its
\* own; every filename written carries the frame's 0-based position in
\* decode order, skipped frames counted, so the position of a skipped frame
\* is a gap in the filenames written.
C8_SkippedFrame ==
    /\ []C8_Indexing
    /\ [][C8_SkipStep]_vars

\* frame 0 had no pts and frame 1 was written as frame_000001.jpg.
C8_Witness ==
    /\ Len(decoded) = 2 /\ decoded[1] = None
    /\ written = <<PaddedName(1)>>
    /\ PaddedName(0) \notin DOMAIN folder
    /\ PaddedName(1) \in DOMAIN folder

\* C9: in every state of a call, an aborted call's last state included, each
\* data row the call has appended names an image the call has already saved,
\* and the images the call has saved are as many as its data rows or one
\* more: the row of a frame follows the frame's image, one frame at a time.
C9_ImageBeforeRow ==
    /\ OwnCsv =>
          /\ \A k \in 1..NumRows :
                /\ k <= Len(written) /\ RowName(k) = written[k]
                /\ RowName(k) \in DOMAIN folder /\ folder[RowName(k)] = "image"
          /\ Len(written) - NumRows \in {0, 1}
          /\ Len(written) - NumRows = 1 => pc \in {"write_row", "aborted"}
    /\ ~OwnCsv => written = <<>>

\* the call was aborted by an I/O error after the second image was saved
\* and before its row was written.
C9_Witness ==
    /\ pc = "aborted" /\ ioError
    /\ Len(written) = 2
    /\ OwnCsv /\ NumRows = 1

\* The stages of a call, in order.
StageOf(p) ==
    CASE p = "mkdir" -> 1
      [] p = "open" -> 2
      [] p = "check_stream" -> 3
      [] p = "load_offset" -> 4
      [] p \in {"open_csv", "write_header"} -> 5
      [] p \in {"next_frame", "check_pts", "save_image", "write_row"} -> 6
      [] p = "close" -> 7
      [] p \in {"notify", "done"} -> 8
      [] OTHER -> 9

Count(seq, x) == Cardinality({k \in 1..Len(seq) : seq[k] = x})
DoneNotice == <<"Done! Frames and CSV saved">>

C10_Stage ==
    pc \notin Terminal =>
        \/ pc' \in {"returned", "aborted"}
        \/ StageOf(pc') = StageOf(pc) + 1
        \/ StageOf(pc') = StageOf(pc) /\ pc' # pc

C10_Once ==
    /\ OwnCsv =>
          /\ Len(csv) >= 1 => IsHeaderLine(csv[1])
          /\ \A k \in 2..Len(csv) : csv[k].kind = "data"
          /\ StageOf(pc) \in 6..8 => Len(csv) >= 1
    /\ Count(console, DoneNotice) = IF pc = "done" THEN 1 ELSE 0
    /\ pc = "done" =>
          /\ console[Len(console)] = DoneNotice
          /\ Count(console, <<"Processing">>) = 1
          /\ Count(console, <<"Error opening video file">>) = 0
          /\ Count(console, <<"No video stream found in file.">>) = 0
          /\ ~csvOpen /\ csvOpened /\ ~ioError
          /\ Len(written) = Len(Timestamped(decoded, 1))
          /\ NumRows = Len(written)

\* C10: a call over a finite frame sequence ends, at "done" or at an early
\* return unless an I/O error aborts it; its stages (create directory, open
\* container, check video stream, load offset, open CSV and write header,
\* iterate frames, close CSV, notify) follow one another in that order, each
\* entered once and none re-entered; the header is the CSV's first line and
\* its only header; the completion notice is printed once, as the last thing,
\* only by a call that opened the container, found a video stream, handled
\* every frame and closed the CSV.
C10_LinearRun ==
    /\ []C10_Once
    /\ [][C10_Stage]_vars
    /\ [](pc \notin Terminal => <>(pc \in {"done", "returned"} \/ ioError))

\* a completed call that iterated over two frames.
C10_Witness ==
    /\ pc = "done"
    /\ Len(decoded) = 2
    /\ Len(csv) = 3
    /\ console[Len(console)] = DoneNotice

====
